---- MODULE Spec2Model ----
(***************************************************************************)
(* A model of the BudgetMe prediction service (src/prediction_api).        *)
(*                                                                         *)
(* Specification Spec: the /generate request pipeline of                   *)
(* routes/predictions.py running as concurrent requests of one user        *)
(* against the usage store of services/usage_service.py.  Every database   *)
(* operation (one supabase .execute()) is one atomic step; the code        *)
(* between two database operations of a request runs with the step that    *)
(* follows the first.                                                      *)
(*                                                                         *)
(* The pure steps of the pipeline each have a specification that draws     *)
(* the input in its initial state and applies the function in one step:    *)
(*   SpecAgg  aggregate_daily_to_monthly   (routes/predictions.py)         *)
(*   SpecPre  preprocess_transaction_data  (models/prophet_forecaster.py)  *)
(*   SpecOut  detect_outliers              (models/prophet_forecaster.py)  *)
(*   SpecCat  get_category_forecasts       (models/prophet_forecaster.py)  *)
(*   SpecProf the user-profile step        (routes/predictions.py)         *)
(* Three more specifications run objects with several operations:         *)
(*   SpecFit  train_model and generate_forecast on one forecaster         *)
(*   SpecIns  the five concurrent calls of generate_prophet_insights      *)
(*   SpecAi   the /ai-insights endpoint    (routes/predictions.py)         *)
(***************************************************************************)
EXTENDS Integers, Sequences, FiniteSets, TLC

(***************************************************************************)
(* Bounds of the model and program constants.                              *)
(***************************************************************************)
\* The requests that may be in flight at once (slots are reused).
Reqs == {"r1", "r2"}

\* models `max_usage` of UsageTrackingService (MAX_PREDICTIONS_PER_MONTH);
\* the model runs with a small quota.
max_usage == 2

\* The clock stops here.
MaxNow == 31

\* timedelta(days=30) of the usage store
ResetDays == 30

\* the minimum number of transactions (schemas.py, predictions.py)
MinTransactions == 7

\* the minimum date range in days of the request validator
MinSpanDays == 7

\* required_points reported when the model step fails for lack of data
ModelRequiredPoints == 30

\* Amounts of the forecast are counted in units of 1/Unit.
Unit == 2

\* Days of a calendar month in the aggregator's calendar.
MonthLen == 3

\* The longest daily forecast given to the aggregator.
MaxDays == 3

\* The longest transaction list given to the preprocessor, and its last day.
MaxTx == 3
MaxDate == 3

\* The longest daily series given to detect_outliers, and its large amount.
MaxSeries == 12
BigAmount == 5

\* detect_outliers: threshold (default 3.0), the series it leaves alone
\* (len(df) < 3), and the percentiles 0.05 = 1/20 and 0.95 = 19/20
ZThreshold == 3
MinOutlierPoints == 3
QuantileParts == 20
LowerParts == 1

\* get_category_forecasts: the default horizon, the days of a month, and
\* the rows a category needs
DefaultPeriods == 90
DaysPerMonth == 30
MinCategoryPoints == 7

\* train_model: the points it needs, and the points cross-validation needs
MinTrainingPoints == 7
CrossValidationPoints == 14

\* The calls of train_model on one forecaster.
MaxTrains == 3

\* Inputs of a request: transaction count, date range in days, timeframe.
TxCounts == {MinTransactions - 2, MinTransactions}
SpanChoices == {MinSpanDays - 1, MinSpanDays}
TimeframeChoices == {"months_3", "months_6", "year_1", "weeks_2"}

VARIABLES
    \* ---- the prediction_usage row of the user (usage_service.py)
    has_record,     \* the row exists
    usage_count,    \* its usage_count column
    reset_date,     \* its reset_date column (in days)
    now,            \* datetime.now() (in days)
    \* ---- the /generate requests (predictions.py generate_predictions)
    pc,             \* position of each request
    ctx,            \* who called get_user_usage: "check" or "incr"
    n_tx,           \* len(request.transaction_data)
    seen,           \* usage_status.current_usage of the usage check
    cur,            \* current_status.current_usage inside increment_usage
    outcome,        \* what the caller got: error code, required, available
    trained,        \* train_model was called for this request
    model_error,    \* what the model step of this request raised
    \* ---- history
    stale,          \* the quota was reset while the request was in flight
    store_failed,   \* a call of the usage store has raised in this period
    served,         \* forecasts returned to requests admitted in this period
                    \* (counted up to max_usage + 1)
    \* ---- the pure steps of the pipeline, each run on its own input
    step,                  \* "input" before the operation, "done" after it
    forecast_df,           \* daily forecast points given to the aggregator
    monthly_predictions,   \* what aggregate_daily_to_monthly returned
    transactions,          \* the transaction list given to the forecaster
    prophet_df,            \* what preprocess_transaction_data returned
    raised,                \* the exception that left the operation, or "none"
    caller_df,             \* the caller's frame given to detect_outliers
    df_before,             \* its rows before the call
    moderated,             \* what detect_outliers returned
    periods,               \* the forecast horizon in days
    monthly_income_prediction,  \* the income figure, if one is given
    category_forecasts,    \* what get_category_forecasts returned
    model,  \* self.model: 0 for None, else the call of train_model that created it
    model_fitted,  \* self.model_fitted
    fit_done,  \* the Prophet object in self.model has been fitted
    call_result,  \* what the last call on the forecaster returned or raised
    trains,  \* calls of train_model so far
    fitted_once, \* a train_model call has completed successfully
    responses,  \* what the external service answered to each of the five insight calls
    insights, \* what generate_prophet_insights returned
    user_profile,  \* what _calculate_user_profile returned
    profile_result, \* how the profile step of the handler ended
    usage_status,  \* usage_status of the /ai-insights handler, or unbound
    ai_response  \* what the /ai-insights handler answered

usageVars == <<has_record, usage_count, reset_date>>
reqVars == <<pc, ctx, n_tx, seen, cur, outcome, trained, model_error>>
histVars == <<stale, served, store_failed>>
serviceVars == <<has_record, usage_count, reset_date, now, pc, ctx, n_tx, seen,
                 cur, outcome, trained, model_error, stale, served,
                 store_failed>>
aggVars == <<forecast_df, monthly_predictions>>
preVars == <<transactions, prophet_df, raised>>
outVars == <<caller_df, df_before, moderated>>
catVars == <<periods, monthly_income_prediction, category_forecasts>>
fitVars == <<model, model_fitted, fit_done, call_result, trains, fitted_once>>
insVars == <<responses, insights>>
profVars == <<user_profile, profile_result>>
aiVars == <<usage_status, ai_response>>
coreVars == <<step, forecast_df, monthly_predictions, transactions, prophet_df,
              raised, caller_df, df_before, moderated, periods,
              monthly_income_prediction, category_forecasts,
              model, model_fitted, fit_done, call_result, trains, fitted_once,
              responses, insights,
              user_profile, profile_result,
              usage_status, ai_response>>
vars == <<has_record, usage_count, reset_date, now, pc, ctx, n_tx, seen, cur,
          outcome, trained, model_error, stale, served, store_failed,
          step, forecast_df, monthly_predictions, transactions, prophet_df,
          raised, caller_df, df_before, moderated, periods,
              monthly_income_prediction, category_forecasts,
          model, model_fitted, fit_done, call_result, trains, fitted_once,
          responses, insights,
          user_profile, profile_result,
          usage_status, ai_response>>

NoOutcome == [code |-> "none", required |-> 0, available |-> 0]
Ok == [code |-> "ok", required |-> 0, available |-> 0]
Failure(code) == [code |-> code, required |-> 0, available |-> 0]

\* InsufficientDataError: ErrorCode.INSUFFICIENT_DATA with both counts
InsufficientDataError(required_points, available_points) ==
    [code |-> "DATA_001", required |-> required_points,
     available |-> available_points]

(***************************************************************************)
(* Request validation.                                                     *)
(***************************************************************************)
\* TimeframeEnum: the body is parsed into PredictionRequest
TimeframeEnum == {"months_3", "months_6", "year_1"}

\* PredictionRequest.validate_transaction_data and the enum field: a
\* ValueError here is FastAPI's 422 answer and the handler never runs.
validate_transaction_data(n, span, tf) ==
    /\ tf \in TimeframeEnum
    /\ ~(n < MinTransactions)
    /\ ~(span < MinSpanDays)

RequestValidationError == Failure("HTTP_422_REQUEST_VALIDATION")

\* ErrorHandler.validate_timeframe
validate_timeframe(tf) ==
    IF tf \notin {"months_3", "months_6", "year_1"}
    THEN Failure("DATA_002") ELSE Ok

\* ErrorHandler.validate_data_sufficiency
validate_data_sufficiency(data_points, minimum_required) ==
    IF data_points < minimum_required
    THEN InsufficientDataError(minimum_required, data_points) ELSE Ok

\* generate_predictions up to the usage check: what the handler raises, or Ok
HandlerPrecheck(n, tf) ==
    IF validate_timeframe(tf) # Ok THEN validate_timeframe(tf)
    ELSE IF n < MinTransactions
         THEN InsufficientDataError(MinTransactions, n)
         ELSE validate_data_sufficiency(n, MinTransactions)

(***************************************************************************)
(* The usage store.                                                        *)
(***************************************************************************)
\* the request has passed or is passing the usage check, and has not answered
InFlight(r) == pc[r] \notin {"idle", "done"} /\ ctx[r] = "check"

\* what a reset of the row does to the history variables
PeriodEnds(by) ==
    /\ served' = 0
    /\ store_failed' = FALSE
    /\ stale' = [r \in Reqs |-> r # by /\ InFlight(r)]

\* (mutant) the expired row gets its count cleared, the period is not moved
ResetCountOnly(by) ==
    /\ usage_count' = 0
    /\ UNCHANGED <<has_record, reset_date>>
    /\ PeriodEnds(by)

\* _reset_user_usage: the update of the row
_reset_user_usage(by) ==
    /\ usage_count' = 0
    /\ reset_date' = now + ResetDays
    /\ UNCHANGED has_record
    /\ PeriodEnds(by)

\* _initialize_user_usage: the insert of the row.  When another request
\* inserted it in between, the second row stays behind the first one.
_initialize_user_usage ==
    IF has_record
    THEN UNCHANGED <<usageVars, histVars>>
    ELSE /\ has_record' = TRUE
         /\ usage_count' = 0
         /\ reset_date' = now + ResetDays
         /\ UNCHANGED histVars

\* (mutant) increment_usage stores its increment whatever the limit
GuReturnNoLimit(r, cu) ==
    IF ctx[r] = "check"
    THEN /\ IF cu >= max_usage
            THEN /\ outcome' = [outcome EXCEPT ![r] = Failure("USAGE_001")]
                 /\ pc' = [pc EXCEPT ![r] = "done"]
                 /\ UNCHANGED seen
            ELSE /\ pc' = [pc EXCEPT ![r] = "train"]
                 /\ seen' = [seen EXCEPT ![r] = cu]
                 /\ UNCHANGED outcome
         /\ UNCHANGED <<ctx, n_tx, cur, trained, model_error>>
    ELSE /\ pc' = [pc EXCEPT ![r] = "incr_update"]
         /\ cur' = [cur EXCEPT ![r] = cu]
         /\ UNCHANGED <<ctx, n_tx, seen, outcome, trained, model_error>>

\* The code after get_user_usage returned current_usage = cu to its caller.
GuReturn(r, cu) ==
    IF ctx[r] = "check"
    THEN \* generate_predictions, the usage check
         /\ IF cu >= max_usage
            THEN /\ outcome' = [outcome EXCEPT ![r] = Failure("USAGE_001")]
                 /\ pc' = [pc EXCEPT ![r] = "done"]
                 /\ UNCHANGED seen
            ELSE /\ pc' = [pc EXCEPT ![r] = "train"]
                 /\ seen' = [seen EXCEPT ![r] = cu]
                 /\ UNCHANGED outcome
         /\ UNCHANGED <<ctx, n_tx, cur, trained, model_error>>
    ELSE \* increment_usage: would the increment exceed the limit?
         /\ IF cu + 1 > max_usage
            THEN pc' = [pc EXCEPT ![r] = "done"] /\ UNCHANGED cur
            ELSE pc' = [pc EXCEPT ![r] = "incr_update"]
                 /\ cur' = [cur EXCEPT ![r] = cu]
         /\ UNCHANGED <<ctx, n_tx, seen, outcome, trained, model_error>>

\* (mutant) the usage check fails open: a store error admits the request
GuFailOpen(r) ==
    /\ pc' = [pc EXCEPT ![r] = IF ctx[r] = "check" THEN "train" ELSE "done"]
    /\ UNCHANGED <<ctx, n_tx, seen, cur, outcome, trained, model_error>>

\* get_user_usage raised (the store failed) and the caller handles it.
GuRaise(r) ==
    /\ pc' = [pc EXCEPT ![r] = "done"]
    /\ outcome' = [outcome EXCEPT ![r] =
                     IF ctx[r] = "check" THEN Failure("SYS_002") ELSE @]
    /\ UNCHANGED <<ctx, n_tx, seen, cur, trained, model_error>>

\* get_user_usage: the select and the branch on its result
GuSelect(r) ==
    /\ pc[r] = "gu_select"
    /\ UNCHANGED <<usageVars, now, stale, served>>
    /\ \/ GuRaise(r) /\ store_failed' = TRUE
       \/ /\ ~has_record
          /\ pc' = [pc EXCEPT ![r] = "gu_init"]
          /\ UNCHANGED <<ctx, n_tx, seen, cur, outcome, trained,
                         model_error, store_failed>>
       \/ /\ has_record
          /\ now > reset_date
          /\ pc' = [pc EXCEPT ![r] = "gu_reset"]
          /\ UNCHANGED <<ctx, n_tx, seen, cur, outcome, trained,
                         model_error, store_failed>>
       \/ /\ has_record
          /\ ~(now > reset_date)
          /\ GuReturn(r, usage_count)
          /\ UNCHANGED store_failed

\* get_user_usage: the new user's row is inserted
GuInit(r) ==
    /\ pc[r] = "gu_init"
    /\ UNCHANGED now
    /\ \/ GuRaise(r) /\ store_failed' = TRUE
                     /\ UNCHANGED <<usageVars, stale, served>>
       \/ _initialize_user_usage /\ GuReturn(r, 0)

\* get_user_usage: the expired row is reset
GuReset(r) ==
    /\ pc[r] = "gu_reset"
    /\ UNCHANGED now
    /\ \/ GuRaise(r) /\ store_failed' = TRUE
                     /\ UNCHANGED <<usageVars, stale, served>>
       \/ _reset_user_usage(r) /\ GuReturn(r, 0)

\* increment_usage: the update of usage_count with the value computed
\* from the status read before
IncrUpdate(r) ==
    /\ pc[r] = "incr_update"
    /\ usage_count' = IF has_record THEN cur[r] + 1 ELSE usage_count
    /\ pc' = [pc EXCEPT ![r] = "done"]
    /\ cur' = [cur EXCEPT ![r] = 0]
    /\ UNCHANGED <<has_record, reset_date, now, ctx, n_tx, seen, outcome,
                   trained, model_error, histVars>>

\* reset_usage_for_user (routes/admin.py reset_user_usage)
AdminReset ==
    /\ has_record
    /\ _reset_user_usage("admin")
    /\ UNCHANGED <<now, reqVars>>

\* cleanup_expired_usage_records (routes/admin.py cleanup_expired_usage)
Cleanup ==
    /\ has_record
    /\ reset_date < now
    /\ _reset_user_usage("admin")
    /\ UNCHANGED <<now, reqVars>>

\* Time passes: up to the reset date, or past it.
AdvanceClock ==
    /\ has_record
    /\ \E t \in {reset_date, reset_date + 1} :
          /\ t > now
          /\ t <= MaxNow
          /\ now' = t
    /\ UNCHANGED <<usageVars, reqVars, histVars>>

(***************************************************************************)
(* generate_predictions                                                    *)
(***************************************************************************)
\* The request arrives: parsing, validation, and the handler up to the
\* usage check.
Receive(r) ==
    /\ pc[r] \in {"idle", "done"}
    /\ \E n \in TxCounts, span \in SpanChoices, tf \in TimeframeChoices :
          /\ n_tx' = [n_tx EXCEPT ![r] = n]
          /\ IF ~validate_transaction_data(n, span, tf)
             THEN /\ outcome' = [outcome EXCEPT ![r] = RequestValidationError]
                  /\ pc' = [pc EXCEPT ![r] = "done"]
             ELSE IF HandlerPrecheck(n, tf) # Ok
             THEN /\ outcome' = [outcome EXCEPT ![r] = HandlerPrecheck(n, tf)]
                  /\ pc' = [pc EXCEPT ![r] = "done"]
             ELSE /\ outcome' = [outcome EXCEPT ![r] = NoOutcome]
                  /\ pc' = [pc EXCEPT ![r] = "gu_select"]
    /\ ctx' = [ctx EXCEPT ![r] = "check"]
    /\ seen' = [seen EXCEPT ![r] = 0]
    /\ cur' = [cur EXCEPT ![r] = 0]
    /\ trained' = [trained EXCEPT ![r] = FALSE]
    /\ model_error' = [model_error EXCEPT ![r] = "none"]
    /\ stale' = [stale EXCEPT ![r] = FALSE]
    /\ UNCHANGED <<usageVars, now, served, store_failed>>

\* What the handler raises for an exception of the model step, by its text.
ModelErrorKinds == {"insufficient data", "training", "accuracy", "other"}

ModelError(r, kind) ==
    IF kind = "insufficient data"
    THEN InsufficientDataError(ModelRequiredPoints, n_tx[r])
    ELSE IF kind = "training" THEN Failure("MODEL_001")
    ELSE Failure("MODEL_002")

\* preprocess_transaction_data, train_model and the accuracy check
Train(r) ==
    /\ pc[r] = "train"
    /\ trained' = [trained EXCEPT ![r] = TRUE]
    /\ \/ /\ pc' = [pc EXCEPT ![r] = "forecast"]
          /\ UNCHANGED <<outcome, seen, stale, model_error>>
       \/ \E kind \in ModelErrorKinds :
             /\ outcome' = [outcome EXCEPT ![r] = ModelError(r, kind)]
             /\ model_error' = [model_error EXCEPT ![r] = kind]
             /\ pc' = [pc EXCEPT ![r] = "done"]
             /\ seen' = [seen EXCEPT ![r] = 0]
             /\ stale' = [stale EXCEPT ![r] = FALSE]
    /\ UNCHANGED <<usageVars, now, ctx, n_tx, cur, served, store_failed>>

\* (mutant) a failed forecast still schedules the usage increment
ForecastFailsCountsUsage(r) ==
    /\ outcome' = [outcome EXCEPT ![r] = Failure("MODEL_002")]
    /\ ctx' = [ctx EXCEPT ![r] = "incr"]
    /\ pc' = [pc EXCEPT ![r] = "gu_select"]
    /\ seen' = [seen EXCEPT ![r] = 0]
    /\ UNCHANGED served

\* The forecast step failed: PredictionGenerationError, nothing scheduled.
ForecastFails(r) ==
    /\ outcome' = [outcome EXCEPT ![r] = Failure("MODEL_002")]
    /\ pc' = [pc EXCEPT ![r] = "done"]
    /\ seen' = [seen EXCEPT ![r] = 0]
    /\ UNCHANGED <<ctx, served>>

\* The response is assembled and returned; increment_usage is added to
\* the background tasks, which run after the response.
Respond(r) ==
    /\ outcome' = [outcome EXCEPT ![r] = Ok]
    /\ served' = IF stale[r] \/ served > max_usage THEN served ELSE served + 1
    /\ ctx' = [ctx EXCEPT ![r] = "incr"]
    /\ pc' = [pc EXCEPT ![r] = "gu_select"]
    /\ seen' = [seen EXCEPT ![r] = 0]

\* Exception classes that are not PredictionServiceException and that the
\* code after the forecast step (fallback insights, response assembly) can
\* let escape to the handler's last except clause.
ExceptionTypes == {"ValueError", "ConnectionError", "TimeoutError", "KeyError"}

\* handle_prediction_exception: the service exception made of another one
handle_prediction_exception(exception_type) ==
    IF exception_type \in {"ConnectionError", "TimeoutError"}
    THEN Failure("EXT_001")
    ELSE IF exception_type = "ValueError" THEN Failure("DATA_003")
    ELSE Failure("SYS_001")

\* The keys of "details" in PredictionServiceException.to_dict, by the
\* class that each error code is raised with in this handler.
ErrorDetails(code) ==
    CASE code = "USAGE_001" -> {"current_usage", "max_usage", "reset_date"}
      [] code = "DATA_001" -> {"required_points", "available_points"}
      [] code \in {"DATA_002", "DATA_003"} -> {"field", "value", "expected"}
      [] code = "MODEL_001" -> {"model_type"}
      [] code = "MODEL_002" -> {"timeframe"}
      [] code = "EXT_001" -> {"service", "original_error"}
      [] code = "SYS_001" -> {"function", "exception_type", "traceback"}
      [] OTHER -> {}

\* except Exception as e: raise ErrorHandler.handle_route_exception(e, ...)
HandleRouteException(r) ==
    /\ \E exception_type \in ExceptionTypes :
          outcome' = [outcome EXCEPT ![r] =
                        handle_prediction_exception(exception_type)]
    /\ pc' = [pc EXCEPT ![r] = "done"]
    /\ seen' = [seen EXCEPT ![r] = 0]
    /\ UNCHANGED <<ctx, served>>

\* generate_forecast, aggregation, category forecasts, profile, insights
\* and the response
Forecast(r) ==
    /\ pc[r] = "forecast"
    /\ \/ ForecastFails(r)
       \/ HandleRouteException(r)
       \/ Respond(r)
    /\ stale' = [stale EXCEPT ![r] = FALSE]
    /\ UNCHANGED <<usageVars, now, n_tx, cur, trained, model_error,
                   store_failed>>

ServiceInit ==
    /\ has_record = FALSE
    /\ usage_count = 0
    /\ reset_date = 0
    /\ now = 0
    /\ pc = [r \in Reqs |-> "idle"]
    /\ ctx = [r \in Reqs |-> "check"]
    /\ n_tx = [r \in Reqs |-> 0]
    /\ seen = [r \in Reqs |-> 0]
    /\ cur = [r \in Reqs |-> 0]
    /\ outcome = [r \in Reqs |-> NoOutcome]
    /\ trained = [r \in Reqs |-> FALSE]
    /\ model_error = [r \in Reqs |-> "none"]
    /\ stale = [r \in Reqs |-> FALSE]
    /\ served = 0
    /\ store_failed = FALSE

\* The pure steps hold no input while the service runs.
AggIdle == forecast_df = <<>> /\ monthly_predictions = <<>>
PreIdle == transactions = <<>> /\ prophet_df = <<>> /\ raised = "none"
OutIdle == caller_df = <<>> /\ df_before = <<>> /\ moderated = <<>>
CatIdle ==
    /\ periods = DefaultPeriods
    /\ monthly_income_prediction = [given |-> FALSE, value |-> 0]
    /\ category_forecasts = <<>>

FitIdle ==
    /\ model = 0
    /\ model_fitted = FALSE
    /\ fit_done = FALSE
    /\ call_result = [op |-> "__init__", error |-> "none", data_points |-> 0,
                      mape |-> 0]
    /\ trains = 0
    /\ fitted_once = FALSE

InsIdle ==
    /\ responses = <<>>
    /\ insights = <<>>

ProfIdle ==
    /\ user_profile = <<>>
    /\ profile_result = "none"

AiIdle ==
    /\ usage_status = [bound |-> FALSE, current_usage |-> 0]
    /\ ai_response = [status |-> "none", success |-> "absent",
                      rate_limited |-> "absent", code |-> "none",
                      insights |-> <<>>]

CoreIdle ==
    /\ step = "input"
    /\ AggIdle
    /\ PreIdle
    /\ OutIdle
    /\ CatIdle
    /\ FitIdle
    /\ InsIdle
    /\ ProfIdle
    /\ AiIdle

Init == ServiceInit /\ CoreIdle

ServiceNext ==
    \/ \E r \in Reqs : Receive(r)
    \/ \E r \in Reqs : GuSelect(r)
    \/ \E r \in Reqs : GuInit(r)
    \/ \E r \in Reqs : GuReset(r)
    \/ \E r \in Reqs : Train(r)
    \/ \E r \in Reqs : Forecast(r)
    \/ \E r \in Reqs : IncrUpdate(r)
    \/ AdminReset
    \/ Cleanup
    \/ AdvanceClock

Next == ServiceNext /\ UNCHANGED coreVars

Spec == Init /\ [][Next]_vars

(***************************************************************************)
(* Claims about the request pipeline and the usage store (Spec).           *)
(***************************************************************************)
Rejected(r) == pc[r] = "done" /\ outcome[r].code \notin {"ok", "none"}

\* C1: within one quota period the number of requests of the user that
\* pass the usage check and return a forecast never exceeds max_usage
\* (stated for the periods in which no call of the usage store failed).
C1_AtMostMaxUsagePerPeriod == ~store_failed => served <= max_usage

\* C2: the stored usage_count is increased only by the increment of a
\* request that completed its forecast and assembled its response; a
\* request rejected at any earlier step never increases it.
C2_IncrementOnlyAfterResponse ==
    [][usage_count' > usage_count =>
          \E r \in Reqs : /\ pc[r] = "incr_update"
                          /\ pc'[r] = "done"
                          /\ outcome[r] = Ok]_vars

\* C2 witness: an increment has been stored for an answered request while
\* the other request was rejected.
C2_Witness ==
    /\ usage_count > 0
    /\ \E r \in Reqs : pc[r] = "done" /\ outcome[r] = Ok
    /\ \E q \in Reqs : Rejected(q)

\* C3: a request with fewer than 7 transactions fails with InsufficientData
\* carrying required = 7 and available = the count, and train_model is not
\* started for it.
C3_ShortListIsInsufficientData ==
    \A r \in Reqs :
        (pc[r] = "done" /\ n_tx[r] < MinTransactions) =>
            /\ outcome[r] = InsufficientDataError(MinTransactions, n_tx[r])
            /\ ~trained[r]

\* C14: when training succeeded and the accuracy check rejected the model
\* (MAPE above 0.4), the failure the caller gets carries the error code
\* MODEL_ACCURACY_LOW (MODEL_003).
C14_AccuracyFailureKind ==
    \A r \in Reqs :
        (pc[r] = "done" /\ model_error[r] = "accuracy") =>
            outcome[r].code = "MODEL_003"

\* C19: a get_user_usage call that saw the reset date passed and whose
\* update of the row did not raise leaves usage_count 0 and reset_date
\* now + 30 days and returns current_usage 0, so the usage check admits
\* the request and increment_usage goes on to store its increment.
C19_ExpiredPeriodIsReset ==
    [][\A r \in Reqs :
          (pc[r] = "gu_reset" /\ pc'[r] # "gu_reset" /\ ~store_failed') =>
              /\ usage_count' = 0
              /\ reset_date' = now + ResetDays
              /\ ctx[r] = "check" => (pc'[r] = "train" /\ seen'[r] = 0)
              /\ ctx[r] = "incr" => (pc'[r] = "incr_update" /\ cur'[r] = 0)
      ]_vars

\* C19 witness: a request was refused at the limit, the reset date passed,
\* and the next request has been admitted on a cleared row.
C19_Witness ==
    /\ now > ResetDays
    /\ usage_count = 0
    /\ reset_date = now + ResetDays
    /\ \E r, q \in Reqs :
          /\ pc[r] = "train" /\ seen[r] = 0
          /\ pc[q] = "done" /\ outcome[q].code = "USAGE_001"

\* C20: a failed request never gets a stack trace in the details of the
\* error it is answered with.
C20_NoTracebackInDetails ==
    \A r \in Reqs :
        Rejected(r) => "traceback" \notin ErrorDetails(outcome[r].code)

\* a position inside get_user_usage
InGetUserUsage(r) == pc[r] \in {"gu_select", "gu_init", "gu_reset"}

C28_UsageCountWithinLimit ==
    has_record => (0 <= usage_count /\ usage_count <= max_usage)

\* C28 witness: the row holds max_usage while an increment of another
\* request is still to be stored.
C28_Witness ==
    /\ has_record /\ usage_count = max_usage
    /\ \E r \in Reqs : pc[r] = "incr_update"

(***************************************************************************)
(* aggregate_daily_to_monthly (routes/predictions.py).                     *)
(*                                                                         *)
(* Amounts are exact multiples of 1/Unit and are held as integers (the     *)
(* amount times Unit).  np.sqrt is kept exact: the value  p + sqrt(u)  is  *)
(* held as the pair of p and the radicand u, and the statements about it   *)
(* are decided on the radicands.  A calendar month has MonthLen days.      *)
(***************************************************************************)
Abs(x) == IF x < 0 THEN -x ELSE x
Max(x, y) == IF x >= y THEN x ELSE y
Min(x, y) == IF x <= y THEN x ELSE y

RECURSIVE SumSeq(_)
SumSeq(q) == IF q = <<>> THEN 0 ELSE q[1] + SumSeq(Tail(q))

\* forecast_df['ds'].dt.to_period('M')
YearMonth(ds) == ds \div MonthLen

\* the rows of a group, in the order of the frame
GroupOf(df, period) == SelectSeq(df, LAMBDA row : YearMonth(row.ds) = period)

\* group[name]
Column(group, name) == [i \in 1..Len(group) |-> group[i][name]]

\* group[hi] - group[lo]
Difference(group, hi, lo) ==
    [i \in 1..Len(group) |-> group[i][hi] - group[i][lo]]

\* the keys of forecast_df.groupby('year_month'), ascending
RECURSIVE SortedPeriods(_)
SortedPeriods(S) ==
    IF S = {} THEN <<>>
    ELSE LET lo == CHOOSE x \in S : \A y \in S : x <= y
         IN <<lo>> \o SortedPeriods(S \ {lo})

\* --- the reals  (sqrt(a) + sqrt(b)) / d  with a, b >= 0 and d > 0
Ratio(a, b, d) == [a |-> a, b |-> b, d |-> d]

\* sqrt(a) + sqrt(b) <= d
RatioLE1(r) ==
    LET k == r.d * r.d - r.a - r.b
    IN k >= 0 /\ 4 * r.a * r.b <= k * k

\* sqrt(a) + sqrt(b) >= d
RatioGE1(r) ==
    LET k == r.d * r.d - r.a - r.b
    IN k <= 0 \/ 4 * r.a * r.b >= k * k

RatioIsZero(r) == r.a = 0 /\ r.b = 0

\* equality of two such reals over the same numerator, or with one side 1
RatioEqual(r1, r2) ==
    IF r1.a = r2.a /\ r1.b = r2.b
    THEN RatioIsZero(r1) \/ r1.d = r2.d
    ELSE /\ RatioLE1(r1) /\ RatioGE1(r1)
         /\ RatioLE1(r2) /\ RatioGE1(r2)

\* (mutant) the confidence is not clipped
NoClip(ratio) == [ratio |-> ratio, clipped |-> FALSE]

\* max(0.0, min(1.0, 1 - ratio)): the ratio is kept, `clipped` says that
\* the value is 1 - min(ratio, 1)
Clip01(ratio) == [ratio |-> ratio, clipped |-> TRUE]

\* the real number a confidence stands for lies in [0, 1]
ConfInUnit(c) == c.clipped \/ RatioLE1(c.ratio)

\* two confidences stand for the same real number
ConfEqual(c1, c2) ==
    LET one1 == c1.clipped /\ RatioGE1(c1.ratio)
        one2 == c2.clipped /\ RatioGE1(c2.ratio)
    IN IF one1 \/ one2
       THEN (one1 \/ (RatioGE1(c1.ratio) /\ RatioLE1(c1.ratio)))
            /\ (one2 \/ (RatioGE1(c2.ratio) /\ RatioLE1(c2.ratio)))
       ELSE RatioEqual(c1.ratio, c2.ratio)

\* (mutant) the daily interval widths are added up, not their squares
NaiveSum(devs) == LET t == SumSeq(devs) IN t * t

\* (daily deviations ** 2).sum(): the radicand of the monthly deviation
SumOfSquares(devs) == SumSeq([i \in 1..Len(devs) |-> devs[i] * devs[i]])

\* group['yhat'].sum()
MonthlyPredicted(group) == SumSeq(Column(group, "yhat"))

\* 1 - (confidence_width / abs(monthly_predicted) if monthly_predicted != 0
\* else 1), then clipped
MonthlyConfidence(predicted, upper_var, lower_var) ==
    Clip01(IF predicted # 0
           THEN Ratio(upper_var, lower_var, Abs(predicted))
           ELSE Ratio(1, 0, 1))

\* one pass of the loop over the groups
MonthlyAggregate(period, group) ==
    LET monthly_predicted == MonthlyPredicted(group)
        daily_upper_variance ==
            SumOfSquares(Difference(group, "yhat_upper", "yhat"))
        daily_lower_variance ==
            SumOfSquares(Difference(group, "yhat", "yhat_lower"))
    IN [month |-> period,
        predicted |-> monthly_predicted,
        \* monthly_predicted + np.sqrt(upper_var)
        upper |-> [base |-> monthly_predicted, rad |-> daily_upper_variance],
        \* monthly_predicted - np.sqrt(lower_var)
        lower |-> [base |-> monthly_predicted, rad |-> daily_lower_variance],
        \* group['trend'].mean(), as sum and count
        trend |-> <<SumSeq(Column(group, "trend")), Len(group)>>,
        \* group.get('seasonal', zeros).sum(): the frame has no such column
        seasonal |-> 0,
        confidence |-> MonthlyConfidence(monthly_predicted,
                                         daily_upper_variance,
                                         daily_lower_variance),
        data_points |-> Len(group)]

aggregate_daily_to_monthly(df) ==
    LET months == SortedPeriods({YearMonth(df[i].ds) : i \in DOMAIN df})
    IN [k \in 1..Len(months) |->
           MonthlyAggregate(months[k], GroupOf(df, months[k]))]

\* --- inputs: consecutive days from `start`, each with one of the shapes
YhatChoices == {-1, 0, 2}
\* (yhat_upper - yhat, yhat - yhat_lower); the last has its bounds crossed
DeviationChoices == {<<0, 0>>, <<1, 1>>, <<2, 1>>, <<-1, 0>>}
PointShapes == YhatChoices \X DeviationChoices

DailyPoint(ds, yhat, up, lo) ==
    [ds |-> ds, yhat |-> yhat, yhat_upper |-> yhat + up,
     yhat_lower |-> yhat - lo, trend |-> ds]

MakeDaily(start, shapes) ==
    [i \in 1..Len(shapes) |->
        DailyPoint(start + i - 1, shapes[i][1], shapes[i][2][1], shapes[i][2][2])]

\* predicted [10, 20, 30], upper [12, 23, 33], lower [8, 17, 27] in one month
ExampleDaily ==
    <<DailyPoint(0, 10 * Unit, 2 * Unit, 2 * Unit),
      DailyPoint(1, 20 * Unit, 3 * Unit, 3 * Unit),
      DailyPoint(2, 30 * Unit, 3 * Unit, 3 * Unit)>>

DailyInputs ==
    {MakeDaily(start, shapes) :
        start \in 0..(MonthLen - 1),
        shapes \in UNION {[1..n -> PointShapes] : n \in 0..MaxDays}}
    \cup {ExampleDaily}

AggInit ==
    /\ ServiceInit
    /\ AiIdle
    /\ ProfIdle
    /\ InsIdle
    /\ FitIdle
    /\ step = "input"
    /\ forecast_df \in DailyInputs
    /\ monthly_predictions = <<>>
    /\ PreIdle
    /\ OutIdle
    /\ CatIdle

Aggregate ==
    /\ step = "input"
    /\ step' = "done"
    /\ monthly_predictions' = aggregate_daily_to_monthly(forecast_df)
    /\ UNCHANGED <<forecast_df, serviceVars, preVars, outVars, catVars, fitVars, insVars, profVars, aiVars>>

AggNext == Aggregate

SpecAgg == AggInit /\ [][AggNext]_vars

(***************************************************************************)
(* Claims about aggregate_daily_to_monthly (SpecAgg).                      *)
(***************************************************************************)
\* the daily rows of a month, taken from the input as a set of indices
DaysOf(period) ==
    {i \in DOMAIN forecast_df : forecast_df[i].ds \div MonthLen = period}

RECURSIVE SumOver(_, _)
SumOver(S, f) ==
    IF S = {} THEN 0
    ELSE LET i == CHOOSE x \in S : TRUE IN f[i] + SumOver(S \ {i}, f)

Sq(x) == x * x

\* C8: per calendar month, predicted is the sum of the daily predictions,
\* (upper - predicted)^2 the sum of the squared daily upper deviations,
\* (predicted - lower)^2 the sum of the squared daily lower deviations,
\* data_points the number of days; and the worked example gives 60 and 22.
C8_MonthlyAggregation ==
    step = "done" =>
        /\ {monthly_predictions[k].month : k \in DOMAIN monthly_predictions}
              = {forecast_df[i].ds \div MonthLen : i \in DOMAIN forecast_df}
        /\ \A k \in DOMAIN monthly_predictions :
              LET m == monthly_predictions[k]
                  D == DaysOf(m.month)
              IN /\ m.predicted = SumOver(D, [i \in D |-> forecast_df[i].yhat])
                 /\ m.upper.base = m.predicted
                 /\ m.upper.rad = SumOver(D, [i \in D |->
                        Sq(forecast_df[i].yhat_upper - forecast_df[i].yhat)])
                 /\ m.lower.base = m.predicted
                 /\ m.lower.rad = SumOver(D, [i \in D |->
                        Sq(forecast_df[i].yhat - forecast_df[i].yhat_lower)])
                 /\ m.data_points = Cardinality(D)
        /\ forecast_df = ExampleDaily =>
              /\ Len(monthly_predictions) = 1
              /\ monthly_predictions[1].predicted = 60 * Unit
              /\ monthly_predictions[1].upper.rad = 22 * Unit * Unit
              /\ monthly_predictions[1].lower.rad = 22 * Unit * Unit

\* C8 witness: the worked example has been aggregated.
C8_Witness ==
    /\ step = "done"
    /\ forecast_df = ExampleDaily
    /\ Len(monthly_predictions) = 1

\* C9: every monthly point has lower <= predicted <= upper and a confidence
\* in [0, 1], whatever the daily points are.
C9_MonthlyBoundsOrdered ==
    step = "done" =>
        \A k \in DOMAIN monthly_predictions :
            LET m == monthly_predictions[k]
            IN /\ m.lower.base <= m.predicted /\ m.lower.rad >= 0
               /\ m.predicted <= m.upper.base /\ m.upper.rad >= 0
               /\ ConfInUnit(m.confidence)

\* C9 witness: a month whose daily bounds are crossed and whose interval is
\* wider than its total has been aggregated.
C9_Witness ==
    /\ step = "done"
    /\ \E i \in DOMAIN forecast_df :
          forecast_df[i].yhat_upper < forecast_df[i].yhat
    /\ \E k \in DOMAIN monthly_predictions :
          /\ monthly_predictions[k].upper.rad > 0
          /\ ~RatioLE1(monthly_predictions[k].confidence.ratio)

\* C10: the monthly confidence is clip(1 - (upper - lower) / max(1, |predicted|),
\* 0, 1) in every month, also when |predicted| is below 1 or is 0.
C10_ConfidenceFormula ==
    step = "done" =>
        \A k \in DOMAIN monthly_predictions :
            LET m == monthly_predictions[k]
            IN ConfEqual(m.confidence,
                         Clip01(Ratio(m.upper.rad, m.lower.rad,
                                      Max(Unit, Abs(m.predicted)))))

(***************************************************************************)
(* preprocess_transaction_data (models/prophet_forecaster.py).             *)
(*                                                                         *)
(* A date is a day number (the time of day is discarded by .dt.date).  A   *)
(* raw amount is a number or a text that pd.to_numeric cannot read.        *)
(***************************************************************************)
Numeric(v) == [numeric |-> TRUE, value |-> v]
NonNumeric == [numeric |-> FALSE, value |-> 0]

Transaction(date, amount, type) ==
    [date |-> date, amount |-> amount, type |-> type]

\* the value of the column 'type' in a row whose dictionary has no such key
Absent == "NaN"

\* missing_columns: a column is missing when no dictionary has its key
MissingColumns(rows) ==
    IF \A i \in DOMAIN rows : rows[i].type = Absent THEN {"type"} ELSE {}

\* pd.to_numeric(errors='coerce') and dropna(subset=['amount'])
DropInvalidAmounts(rows) == SelectSeq(rows, LAMBDA t : t.amount.numeric)

\* df['date'].dt.date.unique(): the dates in the order of first appearance
RECURSIVE UniqueDates(_)
UniqueDates(rows) ==
    IF rows = <<>> THEN <<>>
    ELSE LET front == UniqueDates(SubSeq(rows, 1, Len(rows) - 1))
             d == rows[Len(rows)].date
         IN IF \E i \in DOMAIN front : front[i] = d
            THEN front
            ELSE Append(front, d)

\* day_transactions[day_transactions['type'] == type]['amount'].sum()
DaySum(rows, date, type) ==
    SumSeq([i \in 1..Len(rows) |->
               IF rows[i].date = date /\ rows[i].type = type
               THEN rows[i].amount.value
               ELSE 0])

\* one entry of daily_data
DailyRow(rows, date) ==
    LET income == DaySum(rows, date, "income")
        expenses == DaySum(rows, date, "expense")
        net_flow == income - expenses
    IN [ds |-> date, y |-> net_flow, income |-> income, expenses |-> expenses]

\* the row a reindex puts on a date the frame does not have (fill_value=0)
FillRow(date) == [ds |-> date, y |-> 0, income |-> 0, expenses |-> 0]

\* sort_values('ds') (insertion of each row in turn)
RECURSIVE SortByDs(_)
SortByDs(rows) ==
    IF rows = <<>> THEN <<>>
    ELSE LET rest == SortByDs(Tail(rows))
             before == SelectSeq(rest, LAMBDA r : r.ds < Head(rows).ds)
             after == SelectSeq(rest, LAMBDA r : ~(r.ds < Head(rows).ds))
         IN before \o <<Head(rows)>> \o after

\* (mutant) the sorted frame is returned without filling the gaps
NoReindex(sorted) == sorted

\* set_index('ds').reindex(pd.date_range(min, max, freq='D'), fill_value=0)
Reindex(sorted) ==
    LET first == sorted[1].ds
        last == sorted[Len(sorted)].ds
    IN [k \in 1..(last - first + 1) |->
           LET date == first + k - 1
           IN IF \E i \in DOMAIN sorted : sorted[i].ds = date
              THEN sorted[CHOOSE i \in DOMAIN sorted : sorted[i].ds = date]
              ELSE FillRow(date)]

\* the result: the frame, or the exception that leaves the function
Frame(rows) == [raised |-> "none", rows |-> rows]
Raise(exception) == [raised |-> exception, rows |-> <<>>]

preprocess_transaction_data(given) ==
    IF given = <<>>
    THEN Raise("ValueError: No transaction data provided")
    ELSE IF MissingColumns(given) # {}
    THEN Raise("ValueError: Missing required columns")
    ELSE LET rows == DropInvalidAmounts(given)
             dates == UniqueDates(rows)
             daily_data == [i \in 1..Len(dates) |-> DailyRow(rows, dates[i])]
         IN IF daily_data = <<>>
            \* pd.DataFrame([]) has no column 'ds' to sort by
            THEN Raise("KeyError: ds")
            ELSE LET sorted == SortByDs(daily_data)
                 IN IF Len(sorted) > 1
                    THEN Frame(Reindex(sorted))
                    ELSE Frame(sorted)

\* --- inputs
AmountChoices == {Numeric(1), Numeric(2), NonNumeric}
TypeChoices == {"income", "expense"}
TransactionChoices ==
    {Transaction(d, a, t) : d \in 1..MaxDate, a \in AmountChoices,
                            t \in TypeChoices}
    \cup {Transaction(d, Numeric(1), Absent) : d \in 1..MaxDate}
TransactionLists == UNION {[1..n -> TransactionChoices] : n \in 0..MaxTx}

PreInit ==
    /\ ServiceInit
    /\ AiIdle
    /\ ProfIdle
    /\ InsIdle
    /\ FitIdle
    /\ step = "input"
    /\ transactions \in TransactionLists
    /\ prophet_df = <<>>
    /\ raised = "none"
    /\ AggIdle
    /\ OutIdle
    /\ CatIdle

Preprocess ==
    /\ step = "input"
    /\ step' = "done"
    /\ LET result == preprocess_transaction_data(transactions)
       IN /\ prophet_df' = result.rows
          /\ raised' = result.raised
    /\ UNCHANGED <<transactions, serviceVars, aggVars, outVars, catVars, fitVars, insVars, profVars, aiVars>>

PreNext == Preprocess

SpecPre == PreInit /\ [][PreNext]_vars

(***************************************************************************)
(* Claims about preprocess_transaction_data (SpecPre).                     *)
(***************************************************************************)
AllAmountsValid == \A i \in DOMAIN transactions : transactions[i].amount.numeric

GivenDates == {transactions[i].date : i \in DOMAIN transactions}

MinDate == CHOOSE d \in GivenDates : \A e \in GivenDates : d <= e
MaxGivenDate == CHOOSE d \in GivenDates : \A e \in GivenDates : d >= e

C23_AtMostOneRowPerGivenDate ==
    (step = "done" /\ raised = "none") =>
        Len(prophet_df) <= Cardinality(GivenDates)

\* the ValueErrors that preprocess_transaction_data raises for its input
InvalidInput ==
    {"ValueError: No transaction data provided",
     "ValueError: Missing required columns"}

\* C24: preprocess_transaction_data fails with an invalid-input error and
\* returns no series when the list is empty, when a required field is
\* missing (from every row), or when no row has a readable amount; in
\* every other case it returns a series, the rows with an unreadable
\* amount being dropped.
C24_InvalidInputOrSeries ==
    step = "done" =>
        IF \/ transactions = <<>>
           \/ MissingColumns(transactions) # {}
           \/ DropInvalidAmounts(transactions) = <<>>
        THEN raised \in InvalidInput /\ prophet_df = <<>>
        ELSE raised = "none" /\ prophet_df # <<>>

\* Whenever the call fails it returns no series, and it fails exactly in
\* the three cases.
FailsExactlyOnUnusableInput ==
    step = "done" =>
        /\ (raised # "none") =>  prophet_df = <<>>
        /\ (raised # "none") <=>
               \/ transactions = <<>>
               \/ MissingColumns(transactions) # {}
               \/ DropInvalidAmounts(transactions) = <<>>

(***************************************************************************)
(* detect_outliers (models/prophet_forecaster.py).                         *)
(*                                                                         *)
(* The amounts of a frame are held in twentieths (QuantileParts) of the    *)
(* currency unit, so that the 5th and 95th percentiles of whole amounts    *)
(* are exact.  The z-score test is decided on integers.                    *)
(***************************************************************************)
\* df['y'] as a sequence
ColumnY(frame) == [i \in 1..Len(frame) |-> frame[i].y]

\* the values of a column in ascending order
RECURSIVE SortValues(_)
SortValues(values) ==
    IF values = <<>> THEN <<>>
    ELSE LET rest == SortValues(Tail(values))
             before == SelectSeq(rest, LAMBDA v : v < Head(values))
             after == SelectSeq(rest, LAMBDA v : ~(v < Head(values)))
         IN before \o <<Head(values)>> \o after

\* np.abs((y - mean) / std) > threshold with std the sample deviation
\* (ddof = 1):  (n*y - S)^2 * (n - 1) > threshold^2 * n * (n*Q - S^2),
\* S the sum and Q the sum of squares; a zero deviation gives NaN, never > 3
IsOutlier(values, i) ==
    LET n == Len(values)
        S == SumSeq(values)
        Q == SumSeq([k \in 1..n |-> values[k] * values[k]])
        dev == n * values[i] - S
    IN dev * dev * (n - 1) > ZThreshold * ZThreshold * n * (n * Q - S * S)

\* df['y'].quantile(parts / 20), linear interpolation between the order
\* statistics around position (n - 1) * parts / 20
Quantile(values, parts) ==
    LET sorted == SortValues(values)
        n == Len(sorted)
        k == ((n - 1) * parts) \div QuantileParts
        r == ((n - 1) * parts) % QuantileParts
    IN IF r = 0
       THEN sorted[k + 1]
       ELSE sorted[k + 1] + (r * (sorted[k + 2] - sorted[k + 1])) \div QuantileParts

\* df.loc[df['y'] < lower, 'y'] = lower; df.loc[df['y'] > upper, 'y'] = upper
CapY(frame, lower_percentile, upper_percentile) ==
    [i \in 1..Len(frame) |->
        LET low == IF frame[i].y < lower_percentile
                   THEN [frame[i] EXCEPT !.y = lower_percentile]
                   ELSE frame[i]
        IN IF low.y > upper_percentile
           THEN [low EXCEPT !.y = upper_percentile]
           ELSE low]

detect_outliers(frame) ==
    IF Len(frame) < MinOutlierPoints
    THEN frame
    ELSE IF \E i \in DOMAIN frame : IsOutlier(ColumnY(frame), i)
         THEN CapY(frame,
                   Quantile(ColumnY(frame), LowerParts),
                   Quantile(ColumnY(frame), QuantileParts - LowerParts))
         ELSE frame

\* --- inputs: frames as preprocess_transaction_data builds them, one row
\* per day from day 1, every day of one shape but for two days
DayShapes == {<<0, 0>>, <<1, 0>>, <<1, 1>>, <<BigAmount, 0>>, <<0, BigAmount>>}
BaseShapes == {<<0, 0>>, <<1, 1>>}

SeriesRow(ds, shape) ==
    [ds |-> ds,
     y |-> QuantileParts * (shape[1] - shape[2]),
     income |-> QuantileParts * shape[1],
     expenses |-> QuantileParts * shape[2]]

SeriesOf(n, base, i, si, j, sj) ==
    [ds \in 1..n |->
        SeriesRow(ds, IF ds = i THEN si ELSE IF ds = j THEN sj ELSE base)]

SeriesInputs ==
    {SeriesOf(n, base, i, si, j, sj) :
        n \in 1..MaxSeries, base \in BaseShapes,
        i \in 1..MaxSeries, si \in DayShapes,
        j \in 1..MaxSeries, sj \in DayShapes}

OutInit ==
    /\ ServiceInit
    /\ AiIdle
    /\ ProfIdle
    /\ InsIdle
    /\ FitIdle
    /\ step = "input"
    /\ caller_df \in SeriesInputs
    /\ df_before = caller_df
    /\ moderated = <<>>
    /\ AggIdle
    /\ PreIdle
    /\ CatIdle

\* the frame is changed in place and the same object is returned
DetectOutliers ==
    /\ step = "input"
    /\ step' = "done"
    /\ caller_df' = detect_outliers(caller_df)
    /\ moderated' = detect_outliers(caller_df)
    /\ UNCHANGED <<df_before, serviceVars, aggVars, preVars, catVars, fitVars, insVars, profVars, aiVars>>

OutNext == DetectOutliers

SpecOut == OutInit /\ [][OutNext]_vars

(***************************************************************************)
(* Claims about the daily series (SpecPre, SpecOut).                       *)
(***************************************************************************)
NetFlowIsDifference(frame) ==
    \A k \in DOMAIN frame : frame[k].y = frame[k].income - frame[k].expenses

\* C7: every entry of the series returned by detect_outliers has
\* net_flow = income - expenses (as every entry of its input has).
C7_NetFlowAfterModeration ==
    step = "done" => NetFlowIsDifference(moderated)

\* The part of C7 about preprocess_transaction_data (SpecPre): every entry
\* of its series, the filled days included, has net_flow = income - expenses.
NetFlowAfterPreprocess ==
    (step = "done" /\ raised = "none") => NetFlowIsDifference(prophet_df)

(***************************************************************************)
(* get_category_forecasts (models/prophet_forecaster.py).                  *)
(*                                                                         *)
(* The averages are exact fractions <<numerator, denominator>> in lowest   *)
(* terms with a positive denominator.                                      *)
(***************************************************************************)
RECURSIVE Gcd(_, _)
Gcd(a, b) == IF b = 0 THEN a ELSE Gcd(b, a % b)

Rat(n, d) ==
    LET g == Gcd(Abs(n), Abs(d))
        s == IF d < 0 THEN -1 ELSE 1
    IN <<(s * n) \div g, (s * d) \div g>>

RInt(n) == <<n, 1>>
RAdd(x, y) ==
    LET g == Gcd(x[2], y[2])
    IN Rat(x[1] * (y[2] \div g) + y[1] * (x[2] \div g), x[2] * (y[2] \div g))
RNeg(x) == <<-x[1], x[2]>>
RSub(x, y) == RAdd(x, RNeg(y))
\* the product, with the common factors taken out before multiplying
RMul(x, y) ==
    LET g1 == Gcd(Abs(x[1]), y[2])
        g2 == Gcd(Abs(y[1]), x[2])
    IN Rat((x[1] \div g1) * (y[1] \div g2), (x[2] \div g2) * (y[2] \div g1))
\* x / y for y # 0
RDiv(x, y) == RMul(x, Rat(y[2], y[1]))
RLess(x, y) == x[1] * y[2] < y[1] * x[2]
RAbs(x) == <<Abs(x[1]), x[2]>>
RMax(x, y) == IF RLess(x, y) THEN y ELSE x
RMin(x, y) == IF RLess(y, x) THEN y ELSE x

\* annual_growth_rate = 0.025, monthly_growth_rate = annual_growth_rate / 12
monthly_growth_rate == Rat(25, 1000 * 12)
\* the cap: 0.03 * (forecast_months / 12)
MaxGrowthPerMonth == Rat(3, 100 * 12)
\* 0.05, the change of the monthly average that makes a trend
TrendShare == Rat(5, 100)
\* monthly_income_prediction * 0.90
IncomeShare == Rat(90, 100)

\* a category label that is None (pd.isna)
NoCategory == "None"

CategoryTransaction(date, amount, type, category) ==
    [date |-> date, amount |-> amount, type |-> type, category |-> category]

\* df[df['category'] == category]
CategoryData(rows, category) ==
    SelectSeq(rows, LAMBDA t : t.category = category)

\* category_data['amount'].sum()
AmountSum(rows) == SumSeq([i \in 1..Len(rows) |-> rows[i].amount.value])

\* forecast_months = max(1, periods / 30)
ForecastMonths(days) == RMax(RInt(1), Rat(days, DaysPerMonth))

\* historical_total / historical_months of the rows of one category
HistoricalAverage(category_data, frame) ==
    RDiv(RInt(IF \E i \in DOMAIN category_data :
                    category_data[i].type = "expense"
              \* abs(category_data['amount'].sum())
              THEN Abs(AmountSum(category_data))
              ELSE AmountSum(category_data)),
         \* historical_months = max(1, date_range_days / 30)
         RMax(RInt(1), Rat(frame[Len(frame)].ds - frame[1].ds, DaysPerMonth)))

\* predicted_monthly_avg: the growth over the horizon, capped
PredictedAverage(historical_monthly_avg, forecast_months) ==
    RMin(RMul(historical_monthly_avg,
              RAdd(RInt(1), RMul(monthly_growth_rate, forecast_months))),
         RMul(historical_monthly_avg,
              RAdd(RInt(1), RMul(MaxGrowthPerMonth, forecast_months))))

GrowthRate(historical_monthly_avg, predicted_monthly_avg) ==
    IF RLess(RInt(0), historical_monthly_avg)
    THEN RDiv(RSub(predicted_monthly_avg, historical_monthly_avg),
              historical_monthly_avg)
    ELSE RInt(0)

TrendOf(growth_rate) ==
    IF RLess(TrendShare, growth_rate) THEN "increasing"
    ELSE IF RLess(growth_rate, RNeg(TrendShare)) THEN "decreasing"
    ELSE "stable"

ForecastRecord(category_data, historical_monthly_avg, predicted_monthly_avg) ==
    [historical_average |-> historical_monthly_avg,
     predicted_average |-> predicted_monthly_avg,
     \* min(0.95, 0.6 + len(category_data) / 100)
     confidence |-> RMin(Rat(95, 100), Rat(60 + Len(category_data), 100)),
     trend |-> TrendOf(GrowthRate(historical_monthly_avg,
                                  predicted_monthly_avg)),
     data_points |-> Len(category_data),
     is_expense |-> \E i \in DOMAIN category_data :
                        category_data[i].type = "expense"]

ForecastOf(category_data, historical_monthly_avg, forecast_months) ==
    ForecastRecord(category_data, historical_monthly_avg,
                   PredictedAverage(historical_monthly_avg, forecast_months))

\* the loop body for one category with enough rows
CategoryForecast(category_data, forecast_months) ==
    ForecastOf(category_data,
               HistoricalAverage(category_data,
                   preprocess_transaction_data(category_data).rows),
               forecast_months)

\* the categories that get a forecast: not None, at least 7 rows, and the
\* preprocessing of their rows does not raise
ForecastCategories(rows) ==
    {c \in {rows[i].category : i \in DOMAIN rows} :
        /\ c # NoCategory
        /\ ~(Len(CategoryData(rows, c)) < MinCategoryPoints)
        /\ preprocess_transaction_data(CategoryData(rows, c)).raised = "none"}

\* category_forecasts at the end of the loop (before the reconciliation)
UnreconciledForecasts(rows, days) ==
    [c \in ForecastCategories(rows) |->
        CategoryForecast(CategoryData(rows, c), ForecastMonths(days))]

ExpenseCategories(forecasts) ==
    {c \in DOMAIN forecasts : forecasts[c].is_expense}

\* sum(cat['predicted_average'] for cat in expense_categories)
RECURSIVE TotalPredicted(_, _)
TotalPredicted(forecasts, categories) ==
    IF categories = {} THEN RInt(0)
    ELSE LET c == CHOOSE x \in categories : TRUE
         IN RAdd(forecasts[c].predicted_average,
                 TotalPredicted(forecasts, categories \ {c}))

\* `monthly_income_prediction and expense_categories`: None and 0 are false
Truthy(income) == income.given /\ income.value # 0

\* (mutant) the expenses are scaled to the ceiling whatever their total
AlwaysScale(total_predicted_expenses, max_reasonable_expenses) == TRUE

\* total_predicted_expenses > max_reasonable_expenses
ExceedsCeiling(total_predicted_expenses, max_reasonable_expenses) ==
    RLess(max_reasonable_expenses, total_predicted_expenses)

\* (mutant) the scaling loop rescales the historical average as well
ScaledWithHistory(forecast, predicted) ==
    [forecast EXCEPT !.predicted_average = predicted,
                     !.historical_average = predicted]

\* the update of one expense forecast in the scaling loop
ScaledTo(forecast, predicted) ==
    [forecast EXCEPT
        !.predicted_average = predicted,
        !.trend = IF RLess(RAbs(RDiv(RSub(predicted,
                                          forecast.historical_average),
                                     forecast.historical_average)),
                           TrendShare)
                  THEN "stable" ELSE @]

Scaled(forecast, scaling_factor) ==
    ScaledTo(forecast, RMul(forecast.predicted_average, scaling_factor))

\* the body of `if total_predicted_expenses > max_reasonable_expenses`
ScaleExpenses(forecasts, total_predicted_expenses, max_reasonable_expenses) ==
    IF \/ total_predicted_expenses = RInt(0)
       \/ \E c \in DOMAIN forecasts :
              forecasts[c].is_expense /\ forecasts[c].historical_average = RInt(0)
    \* ZeroDivisionError: except -> return {}
    THEN <<>>
    ELSE [c \in DOMAIN forecasts |->
             IF forecasts[c].is_expense
             THEN Scaled(forecasts[c],
                         \* scaling_factor
                         RDiv(max_reasonable_expenses, total_predicted_expenses))
             ELSE forecasts[c]]

\* the body of `if monthly_income_prediction and expense_categories`
AlignWithIncome(forecasts, total_predicted_expenses, max_reasonable_expenses) ==
    IF ExceedsCeiling(total_predicted_expenses, max_reasonable_expenses)
    THEN ScaleExpenses(forecasts, total_predicted_expenses,
                       max_reasonable_expenses)
    ELSE forecasts

Reconcile(forecasts, income) ==
    IF Truthy(income) /\ ExpenseCategories(forecasts) # {}
    THEN AlignWithIncome(forecasts,
                         TotalPredicted(forecasts, ExpenseCategories(forecasts)),
                         RMul(RInt(income.value), IncomeShare))
    ELSE forecasts

get_category_forecasts(rows, days, income) ==
    Reconcile(UnreconciledForecasts(rows, days), income)

\* --- inputs: the rows of one or two categories, one amount per category,
\* all rows on the first day but the last, which is `span` days later
NoIncome == [given |-> FALSE, value |-> 0]
Income(v) == [given |-> TRUE, value |-> v]

CountChoices == {MinCategoryPoints - 1, MinCategoryPoints}
CategoryAmountChoices == {1, 3}
CategoryTypeChoices == {"income", "expense", "mixed"}
SpanDayChoices == {6, 45}
PeriodChoices == {15, 90, 365}
IncomeChoices == {NoIncome, Income(0), Income(-2), Income(1), Income(3),
                  Income(100)}

GroupRows(category, n, amount, type, span) ==
    [i \in 1..n |->
        CategoryTransaction(IF i = n THEN 1 + span ELSE 1,
                            Numeric(amount),
                            IF type = "mixed"
                            THEN (IF i = 1 THEN "income" ELSE "expense")
                            ELSE type,
                            category)]

FirstGroups ==
    {GroupRows("food", n, a, t, s) :
        n \in CountChoices, a \in CategoryAmountChoices,
        t \in CategoryTypeChoices, s \in SpanDayChoices}
SecondGroups ==
    {<<>>} \cup
    {GroupRows(c, MinCategoryPoints, a, t, s) :
        c \in {"rent", NoCategory}, a \in CategoryAmountChoices,
        t \in CategoryTypeChoices, s \in SpanDayChoices}
CategoryInputs == {g1 \o g2 : g1 \in FirstGroups, g2 \in SecondGroups}

CatInit ==
    /\ ServiceInit
    /\ AiIdle
    /\ ProfIdle
    /\ InsIdle
    /\ FitIdle
    /\ step = "input"
    /\ transactions \in CategoryInputs
    /\ prophet_df = <<>>
    /\ raised = "none"
    /\ periods \in PeriodChoices
    /\ monthly_income_prediction \in IncomeChoices
    /\ category_forecasts = <<>>
    /\ AggIdle
    /\ OutIdle

GetCategoryForecasts ==
    /\ step = "input"
    /\ step' = "done"
    /\ category_forecasts' =
           get_category_forecasts(transactions, periods,
                                  monthly_income_prediction)
    /\ UNCHANGED <<periods, monthly_income_prediction, serviceVars, aggVars,
                   preVars, outVars, fitVars, insVars, profVars, aiVars>>

CatNext == GetCategoryForecasts

SpecCat == CatInit /\ [][CatNext]_vars

(***************************************************************************)
(* Claims about get_category_forecasts (SpecCat).                          *)
(***************************************************************************)
BeforeReconciliation == UnreconciledForecasts(transactions, periods)

IncomeCeiling == RMul(RInt(monthly_income_prediction.value), IncomeShare)

TotalBefore ==
    TotalPredicted(BeforeReconciliation, ExpenseCategories(BeforeReconciliation))

\* C4: with an income figure given and an expense category forecast, the
\* predicted averages of the expense categories sum to at most 90% of the
\* income figure, and where they were scaled, each by
\* (0.90 * income) / total_predicted_expenses.
C4_ExpensesWithinIncomeShare ==
    (/\ step = "done"
     /\ monthly_income_prediction.given
     /\ ExpenseCategories(category_forecasts) # {}) =>
        /\ ~RLess(IncomeCeiling,
                  TotalPredicted(category_forecasts,
                                 ExpenseCategories(category_forecasts)))
        /\ category_forecasts # BeforeReconciliation =>
              \A c \in ExpenseCategories(category_forecasts) :
                  category_forecasts[c].predicted_average =
                      RMul(BeforeReconciliation[c].predicted_average,
                           RDiv(IncomeCeiling, TotalBefore))

\* C5: when the predicted expense averages already sum to at most 90% of the
\* income figure given, every forecast has the predicted_average it had
\* before the reconciliation.
C5_NoScalingWithinShare ==
    (/\ step = "done"
     /\ monthly_income_prediction.given
     /\ ~RLess(IncomeCeiling, TotalBefore)) =>
        /\ DOMAIN category_forecasts = DOMAIN BeforeReconciliation
        /\ \A c \in DOMAIN BeforeReconciliation :
              category_forecasts[c].predicted_average =
                  BeforeReconciliation[c].predicted_average

\* C5 witness: two expense categories whose total is below 90% of a given,
\* non-zero income have gone through the reconciliation.
C5_Witness ==
    /\ step = "done"
    /\ Truthy(monthly_income_prediction)
    /\ Cardinality(ExpenseCategories(category_forecasts)) = 2
    /\ RLess(TotalBefore, IncomeCeiling)

(***************************************************************************)
(* Claims about detect_outliers (SpecOut), continued.                      *)
(***************************************************************************)
\* C11: after detect_outliers on a series of at least 3 points, no net flow
\* of the returned series is below the 5th or above the 95th percentile of
\* the series as it was given.
C11_WithinPercentilesAfterModeration ==
    (step = "done" /\ Len(df_before) >= MinOutlierPoints) =>
        \A k \in DOMAIN moderated :
            /\ moderated[k].y >= Quantile(ColumnY(df_before), LowerParts)
            /\ moderated[k].y <=
                   Quantile(ColumnY(df_before), QuantileParts - LowerParts)

(***************************************************************************)
(* The forecaster object: __init__, train_model and generate_forecast      *)
(* (models/prophet_forecaster.py).  The Prophet library is abstract: its   *)
(* calls succeed or raise, and cross-validation measures some MAPE (in     *)
(* percent).                                                               *)
(***************************************************************************)
Returned(op, data_points, mape) ==
    [op |-> op, error |-> "none", data_points |-> data_points, mape |-> mape]
Failed(op, error) ==
    [op |-> op, error |-> error, data_points |-> 0, mape |-> 0]

InsufficientTrainingData ==
    "ValueError: Insufficient data for training (minimum 7 data points required)"
ModelNotFitted ==
    "ValueError: Model must be trained before generating forecasts"

\* (mutant) no series is too short for training
NeverTooShort(frame) == FALSE

\* len(df) < 7
TooShortForTraining(frame) == Len(frame) < MinTrainingPoints

\* (mutant) the flag is set before the fit is attempted
FlagBeforeFit(fit_succeeds, flag) == TRUE

\* self.model.fit(df_clean); self.model_fitted = True
FlagAfterFit(fit_succeeds, flag) == IF fit_succeeds THEN TRUE ELSE flag

\* avg_metrics['mape']: measured when there are at least 14 points and the
\* cross-validation does not raise, else 0
AverageMape(df_clean, cv_fails, measured) ==
    IF Len(df_clean) >= CrossValidationPoints /\ ~cv_fails
    THEN measured
    ELSE 0

\* train_model(df); `fault` is the library call that raises, if any
TrainModel(frame, fault, measured) ==
    /\ trains < MaxTrains
    /\ trains' = trains + 1
    /\ df_before' = frame
    /\ IF TooShortForTraining(frame)
       THEN /\ call_result' = Failed("train_model", InsufficientTrainingData)
            /\ caller_df' = frame
            /\ moderated' = <<>>
            /\ UNCHANGED <<model, model_fitted, fit_done, fitted_once>>
       ELSE /\ caller_df' = detect_outliers(frame)
            /\ moderated' = detect_outliers(frame)
            /\ IF fault = "create"
               THEN /\ call_result' = Failed("train_model", "Exception: Prophet()")
                    /\ UNCHANGED <<model, model_fitted, fit_done, fitted_once>>
               ELSE /\ model' = trains + 1
                    /\ fit_done' = (fault # "fit")
                    /\ model_fitted' = FlagAfterFit(fault # "fit", model_fitted)
                    /\ fitted_once' = (fitted_once \/ fault # "fit")
                    /\ call_result' =
                           IF fault = "fit"
                           THEN Failed("train_model", "Exception: Prophet.fit")
                           ELSE Returned("train_model", Len(frame),
                                         AverageMape(detect_outliers(frame),
                                                     fault = "cv", measured))
    /\ UNCHANGED <<step, serviceVars, aggVars, preVars, catVars, insVars, profVars, aiVars>>

\* generate_forecast(periods)
GenerateForecast(horizon, predict_fails) ==
    /\ call_result' =
           IF ~model_fitted
           THEN Failed("generate_forecast", ModelNotFitted)
           ELSE IF ~fit_done \/ predict_fails
           THEN Failed("generate_forecast", "Exception: Prophet.predict")
           ELSE Returned("generate_forecast", horizon, 0)
    /\ UNCHANGED <<model, model_fitted, fit_done, trains, fitted_once, step,
                   serviceVars, aggVars, preVars, outVars, catVars, insVars, profVars, aiVars>>

\* --- inputs
FitLengths == {MinTrainingPoints - 1, MinTrainingPoints, CrossValidationPoints}
FitSeries ==
    {SeriesOf(n, <<0, 0>>, 1, s, 1, s) :
        n \in FitLengths, s \in {<<1, 0>>, <<0, BigAmount>>}}
LibraryFaults == {"none", "create", "fit", "cv"}
MapeChoices == {0, 30, 50}
HorizonChoices == {90, 180}

FitInit ==
    /\ ServiceInit
    /\ AiIdle
    /\ ProfIdle
    /\ InsIdle
    /\ step = "input"
    /\ AggIdle
    /\ PreIdle
    /\ OutIdle
    /\ CatIdle
    \* __init__
    /\ FitIdle

FitNext ==
    \/ \E frame \in FitSeries, fault \in LibraryFaults, measured \in MapeChoices :
           TrainModel(frame, fault, measured)
    \/ \E horizon \in HorizonChoices, predict_fails \in BOOLEAN :
           GenerateForecast(horizon, predict_fails)

SpecFit == FitInit /\ [][FitNext]_vars

(***************************************************************************)
(* Claims about the forecaster object (SpecFit).                           *)
(***************************************************************************)
\* C12: generate_forecast on a forecaster on which no train_model call has
\* completed successfully raises the model-not-fitted error and returns no
\* forecast, initially and after failed train_model calls.
C12_ForecastNeedsFittedModel ==
    (call_result.op = "generate_forecast" /\ ~fitted_once) =>
        call_result = Failed("generate_forecast", ModelNotFitted)

\* C12 witness: generate_forecast was called after a train_model call whose
\* fit raised, no train_model call having succeeded.
C12_Witness ==
    /\ call_result.op = "generate_forecast"
    /\ ~fitted_once
    /\ model # 0
    /\ call_result.error = ModelNotFitted

\* C13: train_model on fewer than 7 points raises the insufficient-data
\* error and leaves model and model_fitted as they were.
C13_ShortSeriesLeavesForecaster ==
    [][(trains' # trains /\ Len(df_before') < MinTrainingPoints) =>
          /\ call_result' = Failed("train_model", InsufficientTrainingData)
          /\ model' = model
          /\ model_fitted' = model_fitted
          /\ fit_done' = fit_done]_vars

\* C13 witness: train_model was refused a short series on a forecaster that
\* holds a fitted model.
C13_Witness ==
    /\ call_result = Failed("train_model", InsufficientTrainingData)
    /\ Len(df_before) < MinTrainingPoints
    /\ model # 0
    /\ model_fitted

\* C18: in every forecast that get_category_forecasts returns, trend is
\* 'increasing' when predicted_average is more than 5% above
\* historical_average, 'decreasing' when it is more than 5% below, and
\* 'stable' otherwise, for the final values, also after the reconciliation
\* has scaled predicted_average.
C18_TrendMatchesFinalAverages ==
    step = "done" =>
        \A c \in DOMAIN category_forecasts :
            category_forecasts[c].trend =
                TrendOf(GrowthRate(category_forecasts[c].historical_average,
                                   category_forecasts[c].predicted_average))

(***************************************************************************)
(* generate_prophet_insights (services/ai_insights_service.py).            *)
(*                                                                         *)
(* The five insight tasks run concurrently; each makes one call of the     *)
(* external service.  The answers arrive in any order, and the gather      *)
(* returns when all five tasks have ended.                                 *)
(***************************************************************************)
\* the tasks, in the order of the list given to asyncio.gather
InsightCategories == <<"trend", "category", "risk", "opportunity", "goal">>

\* How the HTTP call of one task ends:
\*   "json"           status 200, the content is the JSON object asked for
\*   "text"           status 200, the content is not JSON
\*   "http_500"       an error status other than 429
\*   "timeout"        no answer within self.timeout
\*   "429"            status 429 without a retry-after header
\*   "429_seconds"    status 429, retry-after gives a number of seconds
\*   "429_http_date"  status 429, retry-after gives an HTTP date
ResponseKinds ==
    {"json", "text", "http_500", "timeout", "429", "429_seconds",
     "429_http_date"}

Pending == "pending"

\* response.status_code == 429
RateLimited(response) == response \in {"429", "429_seconds", "429_http_date"}

AIInsight(category, origin) == [category |-> category, origin |-> origin]

\* the RateLimitError instance as a result of a task
RateLimitError == [category |-> "RateLimitError", origin |-> "raised"]

\* the insight of generate_prophet_insights' `except RateLimitError`
RateLimitInsight == AIInsight("rate_limit", "rate_limit")

\* _call_openrouter_api: the exception that leaves it, or "none".
\* retry_seconds = int(retry_after) if retry_after else None
_call_openrouter_api(response) ==
    CASE response \in {"json", "text"} -> "none"
      [] response = "http_500" -> "HTTPStatusError"
      [] response = "timeout" -> "TimeoutException"
      [] response \in {"429", "429_seconds"} -> "RateLimitError"
      [] response = "429_http_date" -> "ValueError"

\* _parse_insight_response: the insight of the model, or the one of its
\* except clause
_parse_insight_response(response, category) ==
    IF response = "json" THEN AIInsight(category, "model")
    ELSE AIInsight(category, "limited_context")

\* _create_fallback_<category>_insight
_create_fallback_insight(category) == AIInsight(category, "fallback")

\* (mutant) a task whose call failed ends with the exception
NoFallback(category, response) ==
    IF _call_openrouter_api(response) = "none"
    THEN _parse_insight_response(response, category)
    ELSE IF _call_openrouter_api(response) = "RateLimitError"
    THEN RateLimitError
    ELSE [category |-> category, origin |-> "raised"]

\* _generate_<category>_insight: the result of one task
_generate_insight(category, response) ==
    IF _call_openrouter_api(response) = "none"
    THEN _parse_insight_response(response, category)
    ELSE IF _call_openrouter_api(response) = "RateLimitError"
    \* except RateLimitError: raise
    THEN RateLimitError
    \* except Exception
    ELSE _create_fallback_insight(category)

\* results of asyncio.gather(*tasks, return_exceptions=True)
GatherResults(answers) ==
    [i \in DOMAIN InsightCategories |->
        _generate_insight(InsightCategories[i], answers[i])]

\* _generate_insights_parallel: `raised` says whether it re-raised the
\* RateLimitError of a task
_generate_insights_parallel(results) ==
    IF \E i \in DOMAIN results : results[i] = RateLimitError
    THEN [raised |-> TRUE, value |-> <<>>]
    ELSE [raised |-> FALSE,
          value |-> SelectSeq(results, LAMBDA x : x.origin # "raised")]

generate_prophet_insights(answers) ==
    IF _generate_insights_parallel(GatherResults(answers)).raised
    THEN <<RateLimitInsight>>
    ELSE _generate_insights_parallel(GatherResults(answers)).value

InsInit ==
    /\ ServiceInit
    /\ AiIdle
    /\ ProfIdle
    /\ step = "input"
    /\ AggIdle
    /\ PreIdle
    /\ OutIdle
    /\ CatIdle
    /\ FitIdle
    /\ responses = [i \in DOMAIN InsightCategories |-> Pending]
    /\ insights = <<>>

\* the call of task i ends
Answer(i, response) ==
    /\ step = "input"
    /\ responses[i] = Pending
    /\ responses' = [responses EXCEPT ![i] = response]
    /\ UNCHANGED <<step, insights>>
    /\ UNCHANGED <<serviceVars, aggVars, preVars, outVars, catVars, fitVars, profVars, aiVars>>

\* all tasks have ended: the gather returns and the insights are returned
GenerateProphetInsights ==
    /\ step = "input"
    /\ \A i \in DOMAIN responses : responses[i] # Pending
    /\ insights' = generate_prophet_insights(responses)
    /\ step' = "done"
    /\ UNCHANGED responses
    /\ UNCHANGED <<serviceVars, aggVars, preVars, outVars, catVars, fitVars, profVars, aiVars>>

InsNext ==
    \/ \E i \in DOMAIN InsightCategories, response \in ResponseKinds :
           Answer(i, response)
    \/ GenerateProphetInsights

SpecIns == InsInit /\ [][InsNext]_vars

(***************************************************************************)
(* Claims about generate_prophet_insights (SpecIns).                       *)
(***************************************************************************)
\* C16: when any of the five insight calls was rate limited (status 429),
\* generate_prophet_insights returns the rate-limit indication only: no
\* model-generated insight and no fallback insight of another call.
C16_RateLimitIsTheWholeOutcome ==
    (step = "done" /\ \E i \in DOMAIN responses : RateLimited(responses[i]))
        => insights = <<RateLimitInsight>>

\* A RateLimitError that a task ended with is the whole outcome.
RateLimitErrorIsPropagated ==
    (step = "done" /\ \E i \in DOMAIN responses :
         _generate_insight(InsightCategories[i], responses[i]) = RateLimitError)
        => insights = <<RateLimitInsight>>

\* C17: when no insight call was rate limited, generate_prophet_insights
\* returns exactly one insight for each of the five categories, in the
\* order of the tasks: the fallback insight of its category for a call that
\* failed or timed out, and for every other call what the parsing of its
\* own answer gives, whatever happened to the other calls.
C17_OneInsightPerCategory ==
    (step = "done" /\ \A i \in DOMAIN responses : ~RateLimited(responses[i]))
        => /\ Len(insights) = Len(InsightCategories)
           /\ \A i \in DOMAIN insights :
                 /\ insights[i].category = InsightCategories[i]
                 /\ responses[i] \in {"http_500", "timeout"} =>
                        insights[i] =
                            _create_fallback_insight(InsightCategories[i])
                 /\ responses[i] \in {"json", "text"} =>
                        insights[i] =
                            _parse_insight_response(responses[i],
                                                    InsightCategories[i])

\* C17 witness: one call failed, one timed out, the others were answered,
\* and the five insights were returned.
C17_Witness ==
    /\ step = "done"
    /\ \A i \in DOMAIN responses : ~RateLimited(responses[i])
    /\ \E i, j, k \in DOMAIN responses :
          /\ responses[i] = "http_500"
          /\ responses[j] = "timeout"
          /\ responses[k] = "json"
    /\ Len(insights) = Len(InsightCategories)

(***************************************************************************)
(* The user-profile step of generate_predictions (routes/predictions.py).  *)
(* Amounts are whole currency units; the averages and the savings rate are *)
(* exact fractions.                                                        *)
(***************************************************************************)
\* sum(t['amount'] for t in transactions if t['type'] == type)
TotalOf(rows, type) == AmountSum(SelectSeq(rows, LAMBDA t : t.type = type))

\* (max(t['date']) - min(t['date'])).days
DateRangeDays(rows) ==
    (CHOOSE d \in {rows[i].date : i \in DOMAIN rows} :
         \A i \in DOMAIN rows : rows[i].date <= d)
    - (CHOOSE d \in {rows[i].date : i \in DOMAIN rows} :
         \A i \in DOMAIN rows : d <= rows[i].date)

\* months = max(1, date_range_days / 30)
ProfileMonths(date_range_days) ==
    RMax(RInt(1), Rat(date_range_days, DaysPerMonth))

\* savings_rate = (income - expenses) / income if income > 0 else 0
SavingsRate(avg_monthly_income, avg_monthly_expenses) ==
    IF RLess(RInt(0), avg_monthly_income)
    THEN RDiv(RSub(avg_monthly_income, avg_monthly_expenses),
              avg_monthly_income)
    ELSE RInt(0)

ProfileOf(avg_monthly_income, avg_monthly_expenses, rows) ==
    [avg_monthly_income |-> avg_monthly_income,
     avg_monthly_expenses |-> avg_monthly_expenses,
     savings_rate |-> SavingsRate(avg_monthly_income, avg_monthly_expenses),
     spending_categories |->
         {rows[i].category : i \in DOMAIN rows} \ {NoCategory},
     transaction_count |-> Len(rows)]

\* the profile of the except clause of _calculate_user_profile
DefaultProfile ==
    [avg_monthly_income |-> RInt(0),
     avg_monthly_expenses |-> RInt(0),
     savings_rate |-> RInt(0),
     spending_categories |-> {},
     transaction_count |-> 0]

\* _calculate_user_profile: max() of an empty list raises and the default
\* profile is returned
_calculate_user_profile(rows) ==
    IF rows = <<>> THEN DefaultProfile
    ELSE ProfileOf(RDiv(RInt(TotalOf(rows, "income")),
                        ProfileMonths(DateRangeDays(rows))),
                   RDiv(RInt(TotalOf(rows, "expense")),
                        ProfileMonths(DateRangeDays(rows))),
                   rows)

\* (mutant) the schema accepts any savings rate
AnySavingsRate(profile) == TRUE

\* UserFinancialProfile: savings_rate = Field(..., ge=-1, le=1)
UserFinancialProfile(profile) ==
    /\ ~RLess(profile.savings_rate, RInt(-1))
    /\ ~RLess(RInt(1), profile.savings_rate)

\* The profile step inside the try of the forecast step: the schema object
\* is built, or its ValidationError becomes PredictionGenerationError.
ProfileStep(profile) ==
    IF UserFinancialProfile(profile) THEN "attached" ELSE "MODEL_002"

\* Transaction lists that the request validation accepts: income rows and
\* expense rows, the first on day 0 and the last on day `span`.
ProfileAmountChoices == {1, 2, 3}
ProfileSpanChoices == {MinSpanDays, MinSpanDays + 1, DaysPerMonth + 15}

ProfileRow(i, n, k, income_amount, expense_amount, span) ==
    CategoryTransaction(IF i = n THEN span ELSE 0,
                        Numeric(IF i <= k THEN income_amount
                                ELSE expense_amount),
                        IF i <= k THEN "income" ELSE "expense",
                        IF i <= k THEN NoCategory ELSE "food")

ProfileInputs ==
    {[i \in 1..MinTransactions |->
         ProfileRow(i, MinTransactions, k, a, b, span)] :
       k \in 0..MinTransactions, a \in ProfileAmountChoices,
       b \in ProfileAmountChoices, span \in ProfileSpanChoices}

ProfInit ==
    /\ ServiceInit
    /\ AiIdle
    /\ step = "input"
    /\ transactions \in ProfileInputs
    /\ validate_transaction_data(Len(transactions),
                                 DateRangeDays(transactions), "months_3")
    /\ prophet_df = <<>>
    /\ raised = "none"
    /\ AggIdle
    /\ OutIdle
    /\ CatIdle
    /\ FitIdle
    /\ InsIdle
    /\ user_profile = <<>>
    /\ profile_result = "none"

\* user_profile = _calculate_user_profile(transactions)
CalculateUserProfile ==
    /\ step = "input"
    /\ user_profile' = _calculate_user_profile(transactions)
    /\ step' = "profile"
    /\ UNCHANGED <<profile_result, preVars>>
    /\ UNCHANGED <<serviceVars, aggVars, outVars, catVars, fitVars, insVars, aiVars>>

\* user_profile_obj = UserFinancialProfile(...)
BuildProfileObject ==
    /\ step = "profile"
    /\ profile_result' = ProfileStep(user_profile)
    /\ step' = "done"
    /\ UNCHANGED <<user_profile, preVars>>
    /\ UNCHANGED <<serviceVars, aggVars, outVars, catVars, fitVars, insVars, aiVars>>

ProfNext ==
    \/ CalculateUserProfile
    \/ BuildProfileObject

SpecProf == ProfInit /\ [][ProfNext]_vars

(***************************************************************************)
(* Claims about the user-profile step (SpecProf).                          *)
(***************************************************************************)
\* C15: for every transaction list that the request validation accepts,
\* whatever the ratio of the expenses to the income, the profile step does
\* not fail the request: the computed profile or the default profile is
\* attached and the pipeline continues.
C15_ProfileNeverFailsThePipeline ==
    step = "done" =>
        /\ profile_result = "attached"
        /\ user_profile \in {_calculate_user_profile(transactions),
                             DefaultProfile}

\* The profile step fails exactly when the expenses are more than twice a
\* positive income.
ProfileFailsOnlyBelowMinusOne ==
    step = "done" =>
        (profile_result = "MODEL_002" <=>
            /\ TotalOf(transactions, "income") > 0
            /\ TotalOf(transactions, "expense") >
                   2 * TotalOf(transactions, "income"))

\* C22: every forecast returned by get_category_forecasts has
\* historical_average >= 0, predicted_average >= 0 and a confidence within
\* [0, 1], whatever income figure is passed in.
C22_ForecastValuesNotNegative ==
    step = "done" =>
        \A c \in DOMAIN category_forecasts :
            /\ ~RLess(category_forecasts[c].historical_average, RInt(0))
            /\ ~RLess(category_forecasts[c].predicted_average, RInt(0))
            /\ ~RLess(category_forecasts[c].confidence, RInt(0))
            /\ ~RLess(RInt(1), category_forecasts[c].confidence)

\* C25: the reconciliation leaves the set of categories, every forecast of
\* an income category, and historical_average, confidence, data_points and
\* is_expense of every forecast as they were before it.
C25_ReconciliationFrame ==
    step = "done" =>
        /\ DOMAIN category_forecasts = DOMAIN BeforeReconciliation
        /\ \A c \in DOMAIN category_forecasts :
              /\ ~BeforeReconciliation[c].is_expense =>
                     category_forecasts[c] = BeforeReconciliation[c]
              /\ category_forecasts[c].historical_average =
                     BeforeReconciliation[c].historical_average
              /\ category_forecasts[c].confidence =
                     BeforeReconciliation[c].confidence
              /\ category_forecasts[c].data_points =
                     BeforeReconciliation[c].data_points
              /\ category_forecasts[c].is_expense =
                     BeforeReconciliation[c].is_expense

\* C25 witness: the reconciliation has scaled an expense category next to
\* an income category.
C25_Witness ==
    /\ step = "done"
    /\ \E c, d \in DOMAIN category_forecasts :
          /\ category_forecasts[c].is_expense
          /\ category_forecasts[c].predicted_average #
                 BeforeReconciliation[c].predicted_average
          /\ ~category_forecasts[d].is_expense

\* C26: detect_outliers leaves the frame passed to it as it was: after the
\* call the caller's series has the values it had before, and capped
\* values are in the returned series only.
C26_CallerSeriesUnchanged ==
    step = "done" => caller_df = df_before

\* C29: model_fitted is true only while self.model is an object whose fit
\* has completed, so that generate_forecast never predicts with a model
\* that was not fitted.
C29_FittedFlagMatchesModel ==
    model_fitted => (model # 0 /\ fit_done)

(***************************************************************************)
(* The /ai-insights endpoint (routes/predictions.py generate_ai_insights). *)
(*                                                                         *)
(* The handler checks the usage, converts the request, and calls           *)
(* generate_prophet_insights, whose five calls have been answered as       *)
(* `responses` says.                                                       *)
(***************************************************************************)
\* `if usage_status.current_usage >= 5`
AiInsightsLimit == 5

\* the local variable usage_status once get_user_usage has returned
UsageStatus(current_usage) == [bound |-> TRUE, current_usage |-> current_usage]

\* an HTTPException made of a service exception
HttpError(status, code) ==
    [status |-> status, success |-> "absent", rate_limited |-> "absent",
     code |-> code, insights |-> <<>>]

\* the dictionary returned after generate_prophet_insights returned
SuccessResponse(generated) ==
    [status |-> "200", success |-> TRUE, rate_limited |-> "absent",
     code |-> "none", insights |-> generated]

\* the dictionary returned by `except RateLimitError`
RateLimitResponse ==
    [status |-> "200", success |-> FALSE, rate_limited |-> TRUE,
     code |-> "RATE_LIMIT_EXCEEDED", insights |-> <<>>]

\* the dictionary returned by `except Exception as insights_error`
FallbackResponse ==
    [status |-> "200", success |-> FALSE, rate_limited |-> FALSE,
     code |-> "none",
     insights |-> <<AIInsight("general", "endpoint_fallback"),
                    AIInsight("savings", "endpoint_fallback")>>]

\* The try block around generate_prophet_insights: `error` is the exception
\* that left the service call, or "none".  The response dictionary reads
\* usage_status.current_usage, which raises UnboundLocalError when the
\* usage check has not bound the variable.
InsightsResponse(error, generated, usage) ==
    IF error = "RateLimitError" THEN RateLimitResponse
    ELSE IF error # "none" THEN FallbackResponse
    ELSE IF ~usage.bound THEN FallbackResponse
    ELSE SuccessResponse(generated)

\* what the usage store answers: it raises, or the row's count
StoreAnswers ==
    {[raised |-> TRUE, current_usage |-> 0]} \cup
    {[raised |-> FALSE, current_usage |-> c] :
        c \in {0, AiInsightsLimit - 1, AiInsightsLimit}}

\* the answers of the five calls: all alike, or one call unlike the others
AiAnswers ==
    {[i \in DOMAIN InsightCategories |-> IF i = k THEN a ELSE b] :
        k \in DOMAIN InsightCategories, a \in ResponseKinds,
        b \in ResponseKinds}

AiInit ==
    /\ ServiceInit
    /\ step = "input"
    /\ AggIdle
    /\ PreIdle
    /\ OutIdle
    /\ CatIdle
    /\ FitIdle
    /\ ProfIdle
    /\ responses \in AiAnswers
    /\ insights = <<>>
    /\ AiIdle

\* the usage check of the handler
AiCheckUsage(answer) ==
    /\ step = "input"
    /\ IF answer.raised
       \* logger.warning("Usage check failed, proceeding")
       THEN /\ step' = "convert"
            /\ UNCHANGED <<usage_status, ai_response>>
       ELSE /\ usage_status' = UsageStatus(answer.current_usage)
            /\ IF answer.current_usage >= AiInsightsLimit
               THEN /\ ai_response' = HttpError("429", "USAGE_001")
                    /\ step' = "done"
               ELSE /\ step' = "convert"
                    /\ UNCHANGED ai_response
    /\ UNCHANGED insVars
    /\ UNCHANGED <<serviceVars, aggVars, preVars, outVars, catVars, fitVars,
                   profVars>>

\* the conversion of the request into schema objects
AiConvert(well_formed) ==
    /\ step = "convert"
    /\ IF well_formed
       THEN step' = "insights" /\ UNCHANGED ai_response
       ELSE /\ ai_response' = HttpError("400", "DATA_003")
            /\ step' = "done"
    /\ UNCHANGED <<usage_status, insVars>>
    /\ UNCHANGED <<serviceVars, aggVars, preVars, outVars, catVars, fitVars,
                   profVars>>

\* generate_prophet_insights returns (it raises nothing: it handles the
\* RateLimitError and every other exception itself) and the response is
\* built
AiGenerate ==
    /\ step = "insights"
    /\ insights' = generate_prophet_insights(responses)
    /\ ai_response' = InsightsResponse("none",
                                       generate_prophet_insights(responses),
                                       usage_status)
    /\ step' = "done"
    /\ UNCHANGED <<usage_status, responses>>
    /\ UNCHANGED <<serviceVars, aggVars, preVars, outVars, catVars, fitVars,
                   profVars>>

AiNext ==
    \/ \E answer \in StoreAnswers : AiCheckUsage(answer)
    \/ \E well_formed \in BOOLEAN : AiConvert(well_formed)
    \/ AiGenerate

SpecAi == AiInit /\ [][AiNext]_vars

(***************************************************************************)
(* Claims about the /ai-insights endpoint (SpecAi).                        *)
(***************************************************************************)
\* the handler has called the insight generator
GeneratorCalled == step = "done" /\ ai_response.status = "200"

\* a call of the generator has ended with RateLimitError
GeneratorRateLimited ==
    _generate_insights_parallel(GatherResults(responses)).raised

\* C27: when the insight generator was rate limited during an /ai-insights
\* request, the response has success = false, rate_limited = true, the
\* code RATE_LIMIT_EXCEEDED and an empty list of insights.
C27_RateLimitedResponse ==
    (GeneratorCalled /\ GeneratorRateLimited) => ai_response = RateLimitResponse

\* C30: when the usage check of an /ai-insights request failed with an
\* error other than the usage limit and the insight generator then
\* succeeded, the response has success = true and carries the generated
\* insights.
C30_ProceedsAfterUsageCheckError ==
    (GeneratorCalled /\ ~usage_status.bound /\ ~GeneratorRateLimited) =>
        /\ ai_response.success = TRUE
        /\ ai_response.insights = generate_prophet_insights(responses)

\* With the usage read, the generated insights are returned with success.
SucceedsWithUsageRead ==
    (GeneratorCalled /\ usage_status.bound /\ ~GeneratorRateLimited) =>
        ai_response = SuccessResponse(generate_prophet_insights(responses))

====
